---- MODULE Spec2Model ----
(***************************************************************************)
(* Role management of user_management_final: RoleService                   *)
(* (app/services/role_service.py) and the change-role request handler      *)
(* (app/routers/role_routes.py) over a shared user store and the           *)
(* role_change_history table.                                              *)
(*                                                                         *)
(* Every request runs in its own database session.  A session keeps an     *)
(* identity map: session.get returns the object already loaded in the      *)
(* session without reading the store again.  The store is read and written *)
(* one statement at a time (read-committed isolation, the least the        *)
(* design asks of the store); a commit is atomic.  Each await of the code  *)
(* is one step of a request, so requests of different processes interleave *)
(* between awaits.                                                         *)
(***************************************************************************)
EXTENDS Integers, Sequences, FiniteSets, TLC

\* ------------------------------------------------------------------ bounds
NumUsers == 2
NumProcs == 2
MaxOps == 2
MaxWindow == 2

\* ------------------------------------------------------------- data model
None == "None"
NotLoaded == "NotLoaded"

UserId(i) == "u" \o ToString(i)
Users == {UserId(i) : i \in 1..NumUsers}
MissingId == "u0"
UserIds == Users \cup {MissingId}
\* A second id that names no user
OtherMissingId == "u9"
AnyIds == UserIds \cup {OtherMissingId}
Procs == 1..NumProcs

\* app.models.user_model.UserRole, in declaration order
UserRole == <<"ANONYMOUS", "AUTHENTICATED", "MANAGER", "ADMIN">>
RoleNames == {UserRole[i] : i \in 1..Len(UserRole)}
ADMIN == "ADMIN"

Email(id) == id \o "@example.com"

\* A Python value handed in as a role: a str or a UserRole member, tagged
\* with its type.
StrValue(s) == [type |-> "str", value |-> s]
EnumValue(r) == [type |-> "UserRole", value |-> r]
EnumValues == {EnumValue(r) : r \in RoleNames}
\* validate_role_change(new_role: str): the canonical names and a name that is none
NameValues == {StrValue(r) : r \in RoleNames} \cup {StrValue("SUPER_USER")}
\* change_user_role(new_role: UserRole): the members, and a str that names no role
ChangeValues == EnumValues \cup {StrValue("SUPER_USER")}
Reasons == {None, "promo"}
\* A Python value of a type that is neither str nor UserRole, with its str()
OtherValue(t, text) == [type |-> t, value |-> text]
\* What _parse_role may be handed: the names, strings that differ from a
\* name in case or altogether, the members, and values of other types
ParseValues ==
    {StrValue(r) : r \in RoleNames}
        \cup {StrValue("admin"), StrValue("Admin"), StrValue(""), StrValue("SUPER_USER"), StrValue("UserRole.ADMIN")}
        \cup EnumValues
        \cup {OtherValue("int", "3"), OtherValue("NoneType", "None")}

\* f"{new_role}"
Format(v) == IF v.type = "UserRole" THEN "UserRole." \o v.value ELSE v.value

\* str.upper() on the strings of the model
Upper(text) == IF text \in {"admin", "Admin"} THEN "ADMIN" ELSE text

\* The name is looked up without regard to case.
_parse_role_AnyCase(role_value) ==
    IF role_value.type = "str"
    THEN IF Upper(role_value.value) \in RoleNames THEN Upper(role_value.value) ELSE None
    ELSE IF role_value.type = "UserRole" THEN role_value.value
    ELSE None

\* RoleService._parse_role
_parse_role(role_value) ==
    IF role_value.type = "str"
    THEN IF role_value.value \in RoleNames THEN role_value.value ELSE None
    ELSE IF role_value.type = "UserRole" THEN role_value.value
    ELSE None

NoArgs == [user_id |-> MissingId, new_role |-> EnumValue(ADMIN), changed_by_id |-> MissingId, reason |-> None]
NoValidation == [ok |-> FALSE, msg |-> <<>>]
NoResult == [status |-> "pending"]
NoneResult == [status |-> "None"]
EmptySession == [id \in AnyIds |-> NotLoaded]

VARIABLES users, users0, history, now, events, pc, op, args, sess, vres, cres, http, raised, before, qres, ops

vars == <<users, users0, history, now, events, pc, op, args, sess, vres, cres, http, raised, before, qres, ops>>

\* The count leaves one administrator out.
AdminCount_OneShort(store) == Cardinality({u \in Users : store[u] = ADMIN}) - 1

\* select(func.count()).select_from(User).filter(User.role == UserRole.ADMIN)
AdminCount(store) == Cardinality({u \in Users : store[u] = ADMIN})

\* session.get(User, id): the session's object if it is loaded, else a read of
\* the store; a missing row loads nothing.
SessionGet(s, id) ==
    IF s[id] # NotLoaded THEN s
    ELSE IF id \in Users THEN [s EXCEPT ![id] = users[id]]
    ELSE s

Init ==
    /\ users \in [Users -> RoleNames]
    /\ users0 = users
    /\ history = <<>>
    /\ now = 0
    /\ events = <<>>
    /\ pc = [p \in Procs |-> "idle"]
    /\ op = [p \in Procs |-> "none"]
    /\ args = [p \in Procs |-> NoArgs]
    /\ sess = [p \in Procs |-> EmptySession]
    /\ vres = [p \in Procs |-> NoValidation]
    /\ cres = [p \in Procs |-> NoResult]
    /\ http = [p \in Procs |-> 0]
    /\ raised = [p \in Procs |-> FALSE]
    /\ before = [p \in Procs |-> [users |-> users, records |-> 0]]
    /\ qres = [p \in Procs |-> NoResult]
    /\ ops = 0

\* A process takes up a new call with a fresh session.
Begin(p, kind, a, first) ==
    /\ pc[p] \in {"idle", "done"}
    /\ ops < MaxOps
    /\ ops' = ops + 1
    /\ op' = [op EXCEPT ![p] = kind]
    /\ args' = [args EXCEPT ![p] = a]
    /\ pc' = [pc EXCEPT ![p] = first]
    /\ sess' = [sess EXCEPT ![p] = EmptySession]
    /\ vres' = [vres EXCEPT ![p] = NoValidation]
    /\ cres' = [cres EXCEPT ![p] = NoResult]
    /\ http' = [http EXCEPT ![p] = 0]
    /\ raised' = [raised EXCEPT ![p] = FALSE]
    /\ before' = [before EXCEPT ![p] = [users |-> users, records |-> Len(history)]]
    /\ qres' = [qres EXCEPT ![p] = NoResult]
    /\ UNCHANGED <<users, users0, history, now, events>>

\* PUT /roles/users/{user_id}: the body's new_role is a UserRole member, the
\* actor is the id in the caller's token (whatever the store now holds for it)
StartRoute(p, Rs) ==
    \E u \in UserIds, r \in EnumValues, by \in UserIds, why \in Rs :
        Begin(p, "route", [user_id |-> u, new_role |-> r, changed_by_id |-> by, reason |-> why], "v_get_user")

\* RoleService.validate_role_change called on its own
StartValidate(p) ==
    \E u \in UserIds, r \in NameValues, by \in UserIds :
        Begin(p, "validate", [user_id |-> u, new_role |-> r, changed_by_id |-> by, reason |-> None], "v_get_user")

\* RoleService.validate_role_change called with any value as the role
StartValidateOf(p, Vs) ==
    \E u \in AnyIds, r \in Vs, by \in AnyIds :
        Begin(p, "validate", [user_id |-> u, new_role |-> r, changed_by_id |-> by, reason |-> None], "v_get_user")

\* RoleService.change_user_role called on its own
StartChange(p, Rs) ==
    \E u \in UserIds, r \in ChangeValues, by \in UserIds, why \in Rs :
        Begin(p, "change", [user_id |-> u, new_role |-> r, changed_by_id |-> by, reason |-> why], "c_get_user")

\* RoleService.change_user_role called on its own with ids of Ids and any
\* value of Vs as the role
StartChangeOf(p, Ids, Vs, Rs) ==
    \E u \in Ids, r \in Vs, by \in Ids, why \in Rs :
        Begin(p, "change", [user_id |-> u, new_role |-> r, changed_by_id |-> by, reason |-> why], "c_get_user")

\* ------------------------------------------------- validate_role_change
Valid == [ok |-> TRUE, msg |-> <<"Role change is valid">>]
Reject(m) == [ok |-> FALSE, msg |-> m]
NeedCount == [ok |-> FALSE, msg |-> <<"count">>]

\* The handler goes on to change_user_role whatever the validation said.
ValidateReturns_Ignored(p, res, s) ==
    /\ vres' = [vres EXCEPT ![p] = res]
    /\ IF op[p] = "route"
       THEN /\ pc' = [pc EXCEPT ![p] = "c_get_user"]
            /\ sess' = [sess EXCEPT ![p] = s]
            /\ http' = http
       ELSE /\ pc' = [pc EXCEPT ![p] = "done"]
            /\ sess' = [sess EXCEPT ![p] = EmptySession]
            /\ http' = [http EXCEPT ![p] = 0]

\* validate_role_change returns res, the session holding s; the request
\* handler raises 400 on a rejection and goes on to change_user_role in the
\* same session otherwise.  The session ends with the call.
ValidateReturns(p, res, s) ==
    /\ vres' = [vres EXCEPT ![p] = res]
    /\ IF op[p] = "route" /\ res.ok
       THEN /\ pc' = [pc EXCEPT ![p] = "c_get_user"]
            /\ sess' = [sess EXCEPT ![p] = s]
            /\ http' = http
       ELSE /\ pc' = [pc EXCEPT ![p] = "done"]
            /\ sess' = [sess EXCEPT ![p] = EmptySession]
            /\ http' = [http EXCEPT ![p] = IF op[p] = "route" THEN 400 ELSE 0]

\* Rule 6 left out: an administrator is demoted without a count.
RulesBeforeCount_NoLastAdminRule(s, user_id, new_role, changed_by_id) ==
    LET new_role_enum == _parse_role(new_role) IN
    IF s[user_id] = NotLoaded
    THEN Reject(<<"User with ID ", user_id, " not found">>)
    ELSE IF s[changed_by_id] = NotLoaded
    THEN Reject(<<"User with ID ", changed_by_id, " not found">>)
    ELSE IF new_role_enum = None
    THEN Reject(<<"Invalid role: ", Format(new_role)>>)
    ELSE IF s[user_id] = new_role_enum
    THEN Reject(<<"User already has the role ", Format(new_role)>>)
    ELSE IF s[changed_by_id] # ADMIN
    THEN Reject(<<"Only administrators can change user roles">>)
    ELSE Valid

\* Rule 5 left out: the actor's role is not looked at.
RulesBeforeCount_NoAdminRule(s, user_id, new_role, changed_by_id) ==
    LET new_role_enum == _parse_role(new_role) IN
    IF s[user_id] = NotLoaded
    THEN Reject(<<"User with ID ", user_id, " not found">>)
    ELSE IF s[changed_by_id] = NotLoaded
    THEN Reject(<<"User with ID ", changed_by_id, " not found">>)
    ELSE IF new_role_enum = None
    THEN Reject(<<"Invalid role: ", Format(new_role)>>)
    ELSE IF s[user_id] = new_role_enum
    THEN Reject(<<"User already has the role ", Format(new_role)>>)
    ELSE IF s[user_id] = ADMIN /\ new_role_enum # ADMIN
    THEN NeedCount
    ELSE Valid

\* Rules 4 and 5 in the other order: the actor's role is looked at first.
RulesBeforeCount_AdminRuleFirst(s, user_id, new_role, changed_by_id) ==
    LET new_role_enum == _parse_role(new_role) IN
    IF s[user_id] = NotLoaded
    THEN Reject(<<"User with ID ", user_id, " not found">>)
    ELSE IF s[changed_by_id] = NotLoaded
    THEN Reject(<<"User with ID ", changed_by_id, " not found">>)
    ELSE IF new_role_enum = None
    THEN Reject(<<"Invalid role: ", Format(new_role)>>)
    ELSE IF s[changed_by_id] # ADMIN
    THEN Reject(<<"Only administrators can change user roles">>)
    ELSE IF s[user_id] = new_role_enum
    THEN Reject(<<"User already has the role ", Format(new_role)>>)
    ELSE IF s[user_id] = ADMIN /\ new_role_enum # ADMIN
    THEN NeedCount
    ELSE Valid

\* Rules 1 and 2 in the other order: the actor is looked at first.
RulesBeforeCount_ActorFirst(s, user_id, new_role, changed_by_id) ==
    LET new_role_enum == _parse_role(new_role) IN
    IF s[changed_by_id] = NotLoaded
    THEN Reject(<<"User with ID ", changed_by_id, " not found">>)
    ELSE IF s[user_id] = NotLoaded
    THEN Reject(<<"User with ID ", user_id, " not found">>)
    ELSE IF new_role_enum = None
    THEN Reject(<<"Invalid role: ", Format(new_role)>>)
    ELSE IF s[user_id] = new_role_enum
    THEN Reject(<<"User already has the role ", Format(new_role)>>)
    ELSE IF s[changed_by_id] # ADMIN
    THEN Reject(<<"Only administrators can change user roles">>)
    ELSE IF s[user_id] = ADMIN /\ new_role_enum # ADMIN
    THEN NeedCount
    ELSE Valid

\* Rules 1-5, and whether rule 6 needs the admin count, on the loaded objects
RulesBeforeCount(s, user_id, new_role, changed_by_id) ==
    LET new_role_enum == _parse_role(new_role) IN
    IF s[user_id] = NotLoaded
    THEN Reject(<<"User with ID ", user_id, " not found">>)
    ELSE IF s[changed_by_id] = NotLoaded
    THEN Reject(<<"User with ID ", changed_by_id, " not found">>)
    ELSE IF new_role_enum = None
    THEN Reject(<<"Invalid role: ", Format(new_role)>>)
    ELSE IF s[user_id] = new_role_enum
    THEN Reject(<<"User already has the role ", Format(new_role)>>)
    ELSE IF s[changed_by_id] # ADMIN
    THEN Reject(<<"Only administrators can change user roles">>)
    ELSE IF s[user_id] = ADMIN /\ new_role_enum # ADMIN
    THEN NeedCount
    ELSE Valid

\* The comparison is off by one: only a count of zero is refused.
LastAdminRule_OffByOne(admin_count) ==
    IF admin_count < 1
    THEN Reject(<<"Cannot change the role of the last administrator">>)
    ELSE Valid

\* Rule 6 on the count of ADMIN users
LastAdminRule(admin_count) ==
    IF admin_count <= 1
    THEN Reject(<<"Cannot change the role of the last administrator">>)
    ELSE Valid

VGetUser(p) ==
    /\ pc[p] = "v_get_user"
    /\ sess' = [sess EXCEPT ![p] = SessionGet(sess[p], args[p].user_id)]
    /\ pc' = [pc EXCEPT ![p] = "v_get_actor"]
    /\ UNCHANGED <<users, users0, history, now, events, op, args, vres, cres, http, raised, before, qres, ops>>

VGetActor(p) ==
    /\ pc[p] = "v_get_actor"
    /\ LET s == SessionGet(sess[p], args[p].changed_by_id)
           res == RulesBeforeCount(s, args[p].user_id, args[p].new_role, args[p].changed_by_id)
       IN IF res = NeedCount
          THEN /\ pc' = [pc EXCEPT ![p] = "v_count"]
               /\ sess' = [sess EXCEPT ![p] = s]
               /\ UNCHANGED <<vres, http>>
          ELSE ValidateReturns(p, res, s)
    /\ UNCHANGED <<users, users0, history, now, events, op, args, cres, raised, before, qres, ops>>

\* A validation that is accepted also writes the requested role.
VCountAdmins_Applies(p) ==
    /\ pc[p] = "v_count"
    /\ ValidateReturns(p, LastAdminRule(AdminCount(users)), sess[p])
    /\ users' = IF LastAdminRule(AdminCount(users)).ok
                THEN [users EXCEPT ![args[p].user_id] = _parse_role(args[p].new_role)]
                ELSE users
    /\ UNCHANGED <<users0, history, now, events, op, args, cres, raised, before, qres, ops>>

\* admin_count = await session.execute(select(func.count())...); rule 6
VCountAdmins(p) ==
    /\ pc[p] = "v_count"
    /\ ValidateReturns(p, LastAdminRule(AdminCount(users)), sess[p])
    /\ UNCHANGED <<users, users0, history, now, events, op, args, cres, raised, before, qres, ops>>

\* except Exception: a store call of validate_role_change raises
VError(p) ==
    /\ \/ pc[p] = "v_get_user"
       \/ pc[p] = "v_get_actor" /\ sess[p][args[p].changed_by_id] = NotLoaded
       \/ pc[p] = "v_count"
    /\ raised' = [raised EXCEPT ![p] = TRUE]
    /\ ValidateReturns(p, Reject(<<"Error validating role change: ", "store error">>), sess[p])
    /\ UNCHANGED <<users, users0, history, now, events, op, args, cres, before, qres, ops>>

\* ----------------------------------------------------- change_user_role
\* A missing user reported as the opaque failure.
NotFound_AsNone(id) == NoneResult

NotFound(id) == [error |-> <<"User with ID ", id, " not found">>, status |-> "not_found"]
InvalidRole(v) == [error |-> <<"Invalid role: ", Format(v)>>, status |-> "invalid_role"]

\* change_user_role returns res; the request handler answers 500 to None,
\* 400 to an error result and 200 otherwise.  The session ends with the call.
ChangeReturns(p, res) ==
    /\ cres' = [cres EXCEPT ![p] = res]
    /\ pc' = [pc EXCEPT ![p] = "done"]
    /\ sess' = [sess EXCEPT ![p] = EmptySession]
    /\ http' = [http EXCEPT ![p] =
                  IF op[p] # "route" THEN 0
                  ELSE IF res = NoneResult THEN 500
                  ELSE IF "error" \in DOMAIN res THEN 400
                  ELSE 200]

CGetUser(p) ==
    /\ pc[p] = "c_get_user"
    /\ LET s == SessionGet(sess[p], args[p].user_id)
       IN IF s[args[p].user_id] = NotLoaded
          THEN ChangeReturns(p, NotFound(args[p].user_id))
          ELSE /\ pc' = [pc EXCEPT ![p] = "c_get_actor"]
               /\ sess' = [sess EXCEPT ![p] = s]
               /\ UNCHANGED <<cres, http>>
    /\ UNCHANGED <<users, users0, history, now, events, op, args, vres, raised, before, qres, ops>>

\* Only an administrator's call goes on to the commit.
CGetActor_AdminOnly(p) ==
    /\ pc[p] = "c_get_actor"
    /\ LET s == SessionGet(sess[p], args[p].changed_by_id)
       IN IF s[args[p].changed_by_id] = NotLoaded
          THEN ChangeReturns(p, NotFound(args[p].changed_by_id))
          ELSE IF _parse_role(args[p].new_role) = None
          THEN ChangeReturns(p, InvalidRole(args[p].new_role))
          ELSE IF s[args[p].changed_by_id] # ADMIN
          THEN ChangeReturns(p, NoneResult)
          ELSE /\ pc' = [pc EXCEPT ![p] = "c_commit"]
               /\ sess' = [sess EXCEPT ![p] = s]
               /\ UNCHANGED <<cres, http>>
    /\ UNCHANGED <<users, users0, history, now, events, op, args, vres, raised, before, qres, ops>>

\* The role is parsed before the actor is looked for.
CGetActor_RoleFirst(p) ==
    /\ pc[p] = "c_get_actor"
    /\ LET s == SessionGet(sess[p], args[p].changed_by_id)
       IN IF _parse_role(args[p].new_role) = None
          THEN ChangeReturns(p, InvalidRole(args[p].new_role))
          ELSE IF s[args[p].changed_by_id] = NotLoaded
          THEN ChangeReturns(p, NotFound(args[p].changed_by_id))
          ELSE /\ pc' = [pc EXCEPT ![p] = "c_commit"]
               /\ sess' = [sess EXCEPT ![p] = s]
               /\ UNCHANGED <<cres, http>>
    /\ UNCHANGED <<users, users0, history, now, events, op, args, vres, raised, before, qres, ops>>

\* changed_by = await session.get(User, changed_by_id), and _parse_role
CGetActor(p) ==
    /\ pc[p] = "c_get_actor"
    /\ LET s == SessionGet(sess[p], args[p].changed_by_id)
       IN IF s[args[p].changed_by_id] = NotLoaded
          THEN ChangeReturns(p, NotFound(args[p].changed_by_id))
          ELSE IF _parse_role(args[p].new_role) = None
          THEN ChangeReturns(p, InvalidRole(args[p].new_role))
          ELSE /\ pc' = [pc EXCEPT ![p] = "c_commit"]
               /\ sess' = [sess EXCEPT ![p] = s]
               /\ UNCHANGED <<cres, http>>
    /\ UNCHANGED <<users, users0, history, now, events, op, args, vres, raised, before, qres, ops>>

\* The row names the role being given as the previous role.
RoleChange_PreviousIsNew(id, user_id, changed_by_id, previous_role, new_role, changed_at, reason) ==
    [id |-> id, user_id |-> user_id, changed_by_id |-> changed_by_id,
     previous_role |-> new_role, new_role |-> new_role,
     changed_at |-> changed_at, reason |-> reason]

\* RoleChangeHistory(...): the row the commit inserts; id is its insertion
\* number and changed_at the server's time.
RoleChange(id, user_id, changed_by_id, previous_role, new_role, changed_at, reason) ==
    [id |-> id, user_id |-> user_id, changed_by_id |-> changed_by_id,
     previous_role |-> previous_role, new_role |-> new_role,
     changed_at |-> changed_at, reason |-> reason]

\* The result names the subject as the one who made the change.
role_change_data_BySubject(user_id, previous_role, new_role, changed_at, changed_by, reason) ==
    [user_id |-> user_id, previous_role |-> previous_role, new_role |-> new_role,
     changed_at |-> changed_at, changed_by |-> Email(user_id), reason |-> reason]

\* role_change_data = {...}; changed_by is the actor's email
role_change_data(user_id, previous_role, new_role, changed_at, changed_by, reason) ==
    [user_id |-> user_id, previous_role |-> previous_role, new_role |-> new_role,
     changed_at |-> changed_at, changed_by |-> Email(changed_by), reason |-> reason]

\* The assignment to user.role is lost.
StoredRole_Unchanged(previous_role, new_role_enum) == previous_role

\* user.role = new_role_enum; session.add(user): the row the commit updates
StoredRole(previous_role, new_role_enum) == new_role_enum

\* One row per user: the row of an earlier change of the user is overwritten.
Inserted_Upsert(table, row) ==
    IF \E i \in 1..Len(table) : table[i].user_id = row.user_id
    THEN [table EXCEPT ![CHOOSE i \in 1..Len(table) : table[i].user_id = row.user_id] = row]
    ELSE Append(table, row)

\* session.add(role_change) and the commit: a new row of role_change_history
Inserted(table, row) == Append(table, row)

\* The exception of publish reaches the outer handler, which returns None.
Returned_Propagates(published, data) == IF published THEN data ELSE NoneResult

\* try: publish(...) except Exception: logger.error(...); return role_change_data
Returned(published, data) == data

\* The commit writes every row the session holds, the actor's as it was
\* when the session loaded it.
CCommit_WholeSession(p, Elapsed, Sink) ==
    /\ pc[p] = "c_commit"
    /\ \E t \in {now + d : d \in Elapsed}, published \in Sink :
        LET a == args[p]
            new_role_enum == _parse_role(a.new_role)
            previous_role == sess[p][a.user_id]
            data == role_change_data(a.user_id, previous_role, new_role_enum, t, a.changed_by_id, a.reason)
        IN /\ now' = t
           /\ history' = Inserted(history, RoleChange(Len(history) + 1, a.user_id, a.changed_by_id,
                                                       previous_role, new_role_enum, t, a.reason))
           /\ users' = [u \in Users |->
                          IF u = a.user_id THEN StoredRole(previous_role, new_role_enum)
                          ELSE IF sess[p][u] # NotLoaded THEN sess[p][u]
                          ELSE users[u]]
           /\ events' = Append(events, [type |-> "user_role_changed", data |-> data,
                                         returned |-> published])
           /\ ChangeReturns(p, Returned(published, data))
    /\ UNCHANGED <<users0, op, args, vres, raised, before, qres, ops>>

\* previous_role = user.role, the record, the role update, the commit, the
\* event and the return: one step, the commit being atomic in the store.
\* Elapsed: by how much the server's clock may have advanced since the last
\* insert; Sink: whether EventService.publish may return (TRUE) or raise (FALSE).
\* events holds the calls of publish, each with whether it returned.
CCommit(p, Elapsed, Sink) ==
    /\ pc[p] = "c_commit"
    /\ \E t \in {now + d : d \in Elapsed}, published \in Sink :
        LET a == args[p]
            new_role_enum == _parse_role(a.new_role)
            previous_role == sess[p][a.user_id]
            data == role_change_data(a.user_id, previous_role, new_role_enum, t, a.changed_by_id, a.reason)
        IN /\ now' = t
           /\ history' = Inserted(history, RoleChange(Len(history) + 1, a.user_id, a.changed_by_id,
                                                       previous_role, new_role_enum, t, a.reason))
           /\ users' = [users EXCEPT ![a.user_id] = StoredRole(previous_role, new_role_enum)]
           /\ events' = Append(events, [type |-> "user_role_changed", data |-> data,
                                         returned |-> published])
           /\ ChangeReturns(p, Returned(published, data))
    /\ UNCHANGED <<users0, op, args, vres, raised, before, qres, ops>>

\* No rollback: a commit that raises leaves its record behind.
CError_NoRollback(p) ==
    /\ \/ pc[p] = "c_get_user" /\ sess[p][args[p].user_id] = NotLoaded
       \/ pc[p] = "c_get_actor" /\ sess[p][args[p].changed_by_id] = NotLoaded
       \/ pc[p] = "c_commit"
    /\ raised' = [raised EXCEPT ![p] = TRUE]
    /\ ChangeReturns(p, NoneResult)
    /\ history' = IF pc[p] = "c_commit"
                  THEN Append(history, RoleChange(Len(history) + 1, args[p].user_id, args[p].changed_by_id,
                                                  sess[p][args[p].user_id], _parse_role(args[p].new_role),
                                                  now, args[p].reason))
                  ELSE history
    /\ UNCHANGED <<users, users0, now, events, op, args, vres, before, qres, ops>>

\* The event is published before the commit: a commit that raises has left
\* its event behind.
CError_PublishedFirst(p) ==
    /\ \/ pc[p] = "c_get_user" /\ sess[p][args[p].user_id] = NotLoaded
       \/ pc[p] = "c_get_actor" /\ sess[p][args[p].changed_by_id] = NotLoaded
       \/ pc[p] = "c_commit"
    /\ raised' = [raised EXCEPT ![p] = TRUE]
    /\ ChangeReturns(p, NoneResult)
    /\ events' = IF pc[p] = "c_commit"
                 THEN Append(events, [type |-> "user_role_changed",
                                      data |-> role_change_data(args[p].user_id, sess[p][args[p].user_id],
                                                                _parse_role(args[p].new_role), now,
                                                                args[p].changed_by_id, args[p].reason),
                                      returned |-> TRUE])
                 ELSE events
    /\ UNCHANGED <<users, users0, history, now, op, args, vres, before, qres, ops>>

\* except Exception: a store call of change_user_role raises; rollback
CError(p) ==
    /\ \/ pc[p] = "c_get_user" /\ sess[p][args[p].user_id] = NotLoaded
       \/ pc[p] = "c_get_actor" /\ sess[p][args[p].changed_by_id] = NotLoaded
       \/ pc[p] = "c_commit"
    /\ raised' = [raised EXCEPT ![p] = TRUE]
    /\ ChangeReturns(p, NoneResult)
    /\ UNCHANGED <<users, users0, history, now, events, op, args, vres, before, qres, ops>>

\* ----------------------------------------- reads: history and the roles
\* A process takes up a read with a fresh session; res is what it has
\* returned so far.  Reads do not count as operations that change the store.
BeginQuery(p, kind, a, first, res) ==
    /\ pc[p] \in {"idle", "done"}
    /\ op' = [op EXCEPT ![p] = kind]
    /\ args' = [args EXCEPT ![p] = a]
    /\ pc' = [pc EXCEPT ![p] = first]
    /\ sess' = [sess EXCEPT ![p] = EmptySession]
    /\ vres' = [vres EXCEPT ![p] = NoValidation]
    /\ cres' = [cres EXCEPT ![p] = NoResult]
    /\ http' = [http EXCEPT ![p] = 0]
    /\ raised' = [raised EXCEPT ![p] = FALSE]
    /\ before' = [before EXCEPT ![p] = [users |-> users, records |-> Len(history)]]
    /\ qres' = [qres EXCEPT ![p] = res]
    /\ UNCHANGED <<users, users0, history, now, events, ops>>

\* The names come sorted.
get_available_roles_Sorted == <<"ADMIN", "ANONYMOUS", "AUTHENTICATED", "MANAGER">>

\* RoleService.get_available_roles: [role.name for role in UserRole]
get_available_roles == [i \in 1..Len(UserRole) |-> UserRole[i]]

\* GET /roles/available
ListRoles(p) ==
    BeginQuery(p, "list", NoArgs, "done", [roles |-> get_available_roles])

\* RoleService._parse_role(role_value), called with any value
ParseRole(p) ==
    \E v \in ParseValues :
        BeginQuery(p, "parse", [new_role |-> v], "done", [role |-> _parse_role(v)])

\* RoleService.get_role_change_history(user_id, skip, limit)
StartHistory(p) ==
    \E u \in UserIds \cup {None}, skip \in 0..MaxWindow, limit \in 0..MaxWindow :
        BeginQuery(p, "history", [user_id |-> u, skip |-> skip, limit |-> limit], "h_page", NoResult)

\* The filter on the subject is left out.
Filtered_AllRows(user_id) == 1..Len(history)

\* get_role_change_history with a subject of Us and a window of Skips, Limits
StartHistoryIn(p, Us, Skips, Limits) ==
    \E u \in Us, skip \in Skips, limit \in Limits :
        BeginQuery(p, "history", [user_id |-> u, skip |-> skip, limit |-> limit], "h_page", NoResult)

\* if user_id: query.filter(RoleChangeHistory.user_id == user_id): the
\* positions in the table of the rows the queries range over
Filtered(user_id) ==
    {i \in 1..Len(history) : user_id = None \/ history[i].user_id = user_id}

\* The rows come oldest first.
OrderedDesc_Ascending(S) ==
    {o \in [1..Cardinality(S) -> S] :
        /\ \A i, j \in 1..Cardinality(S) : i # j => o[i] # o[j]
        /\ \A i, j \in 1..Cardinality(S) :
              i < j => history[o[i]].changed_at <= history[o[j]].changed_at}

\* order_by(RoleChangeHistory.changed_at.desc()): the orders the store may
\* return the rows S in; rows of equal changed_at come in any order
OrderedDesc(S) ==
    {o \in [1..Cardinality(S) -> S] :
        /\ \A i, j \in 1..Cardinality(S) : i # j => o[i] # o[j]
        /\ \A i, j \in 1..Cardinality(S) :
              i < j => history[o[i]].changed_at >= history[o[j]].changed_at}

\* .offset(skip).limit(limit) on the ordered rows o
Window(o, skip, limit) ==
    LET n == IF Len(o) - skip < limit THEN Len(o) - skip ELSE limit
    IN [k \in 1..(IF n < 0 THEN 0 ELSE n) |-> history[o[skip + k]]]

\* The rows are counted without the filter on the subject.
CountRows_Unfiltered(user_id) == Len(history)

\* select(func.count(RoleChangeHistory.id)) with the same filter
CountRows(user_id) == Cardinality(Filtered(user_id))

\* result = await session.execute(query)
HPage(p) ==
    /\ pc[p] = "h_page"
    /\ \E o \in OrderedDesc(Filtered(args[p].user_id)) :
          qres' = [qres EXCEPT ![p] = [records |-> Window(o, args[p].skip, args[p].limit)]]
    /\ pc' = [pc EXCEPT ![p] = "h_count"]
    /\ UNCHANGED <<users, users0, history, now, events, op, args, sess, vres, cres, http, raised, before, ops>>

\* count_result = await session.execute(count_query), and the return
HCount(p) ==
    /\ pc[p] = "h_count"
    /\ qres' = [qres EXCEPT ![p] = [records |-> qres[p].records,
                                    total |-> CountRows(args[p].user_id),
                                    limit |-> args[p].limit,
                                    skip |-> args[p].skip]]
    /\ pc' = [pc EXCEPT ![p] = "done"]
    /\ UNCHANGED <<users, users0, history, now, events, op, args, sess, vres, cres, http, raised, before, ops>>

\* The page read before the count query raised is returned.
HError_KeepsPage(p) ==
    /\ pc[p] \in {"h_page", "h_count"}
    /\ raised' = [raised EXCEPT ![p] = TRUE]
    /\ qres' = [qres EXCEPT ![p] = [records |-> IF pc[p] = "h_count" THEN qres[p].records ELSE <<>>,
                                    total |-> 0,
                                    limit |-> args[p].limit, skip |-> args[p].skip]]
    /\ pc' = [pc EXCEPT ![p] = "done"]
    /\ UNCHANGED <<users, users0, history, now, events, op, args, sess, vres, cres, http, before, ops>>

\* except Exception: a query of get_role_change_history raises
HError(p) ==
    /\ pc[p] \in {"h_page", "h_count"}
    /\ raised' = [raised EXCEPT ![p] = TRUE]
    /\ qres' = [qres EXCEPT ![p] = [records |-> <<>>, total |-> 0,
                                    limit |-> args[p].limit, skip |-> args[p].skip]]
    /\ pc' = [pc EXCEPT ![p] = "done"]
    /\ UNCHANGED <<users, users0, history, now, events, op, args, sess, vres, cres, http, before, ops>>

\* ------------------------------------------- the request body's reason
\* reason: Optional[str] = Field(None, max_length=255)
MaxReasonLength == 255
\* if len(v) < 5
MinReasonLength == 5

\* A reason as the body carries it: no reason, or the characters text
\* followed by pad characters that are no letters
Absent == [absent |-> TRUE]
Text(text, pad) == [text |-> text, pad |-> pad]
ReasonInputs ==
    {Absent,
     Text(<<>>, 0),
     Text(<<"o", "k", "a", "y">>, 0),
     Text(<<"p", "r", "o", "m", "o">>, 0),
     Text(<<"p", "r", "o", "m", "o">>, MaxReasonLength - 5),
     Text(<<"p", "r", "o", "m", "o">>, MaxReasonLength - 4),
     Text(<<"P", "R", "O", "F", "A", "N", "I", "T", "Y">>, 0),
     Text(<<"a", "n", " ", "O", "f", "f", "e", "n", "s", "i", "v", "e", " ", "o", "n", "e">>, 0),
     Text(<<"p", "r", "o", "f", "a", " ", "n", "i", "t", "y">>, 0),
     Text(<<"i", "n", "a", "p", "p", "r", "o", "p", "r", "i", "a", "t", "e">>, MaxReasonLength)}

\* len(v)
Length(v) == Len(v.text) + v.pad

Capitals == <<"A", "B", "C", "D", "E", "F", "G", "H", "I", "J", "K", "L", "M", "N", "O", "P", "Q", "R", "S", "T", "U", "V", "W", "X", "Y", "Z">>
Smalls == <<"a", "b", "c", "d", "e", "f", "g", "h", "i", "j", "k", "l", "m", "n", "o", "p", "q", "r", "s", "t", "u", "v", "w", "x", "y", "z">>
\* v.lower()
lower(text) ==
    [i \in 1..Len(text) |->
        IF \E k \in 1..Len(Capitals) : Capitals[k] = text[i]
        THEN Smalls[CHOOSE k \in 1..Len(Capitals) : Capitals[k] = text[i]]
        ELSE text[i]]

\* pattern in text
Contains(pattern, text) ==
    \E i \in 0..(Len(text) - Len(pattern)) :
        \A k \in 1..Len(pattern) : text[i + k] = pattern[k]

inappropriate_patterns == {<<"p", "r", "o", "f", "a", "n", "i", "t", "y">>, <<"o", "f", "f", "e", "n", "s", "i", "v", "e">>, <<"i", "n", "a", "p", "p", "r", "o", "p", "r", "i", "a", "t", "e">>}

\* The patterns are looked for in the reason as it is written.
validate_reason_CaseSensitive(v) ==
    IF v # Absent
    THEN /\ ~(Length(v) < MinReasonLength)
         /\ \A pattern \in inappropriate_patterns : ~Contains(pattern, v.text)
    ELSE TRUE

\* RoleChangeRequest.validate_reason: whether it returns v (TRUE) or raises
validate_reason(v) ==
    IF v # Absent
    THEN /\ ~(Length(v) < MinReasonLength)
         /\ LET lowered == lower(v.text)
            IN \A pattern \in inappropriate_patterns : ~Contains(pattern, lowered)
    ELSE TRUE

\* The field's max_length, then its validator
RoleChangeRequest(v) ==
    /\ v # Absent => Length(v) <= MaxReasonLength
    /\ validate_reason(v)

\* The reasons with which a body passes RoleChangeRequest
AcceptedReasons == {v \in ReasonInputs : RoleChangeRequest(v)}

\* PUT /roles/users/{user_id} with its body: a body that fails validation
\* is answered 422 and the handler is not called.
Request(p) ==
    \E u \in UserIds, r \in EnumValues, by \in UserIds, why \in ReasonInputs :
        LET a == [user_id |-> u, new_role |-> r, changed_by_id |-> by, reason |-> why]
        IN IF why \in AcceptedReasons
           THEN Begin(p, "route", a, "v_get_user")
           ELSE /\ pc[p] \in {"idle", "done"}
                /\ ops < MaxOps
                /\ ops' = ops + 1
                /\ op' = [op EXCEPT ![p] = "route"]
                /\ args' = [args EXCEPT ![p] = a]
                /\ pc' = [pc EXCEPT ![p] = "done"]
                /\ sess' = [sess EXCEPT ![p] = EmptySession]
                /\ vres' = [vres EXCEPT ![p] = NoValidation]
                /\ cres' = [cres EXCEPT ![p] = NoResult]
                /\ http' = [http EXCEPT ![p] = 422]
                /\ raised' = [raised EXCEPT ![p] = FALSE]
                /\ before' = [before EXCEPT ![p] = [users |-> users, records |-> Len(history)]]
                /\ qres' = [qres EXCEPT ![p] = NoResult]
                /\ UNCHANGED <<users, users0, history, now, events>>

\* ------------------------------------------------------- specifications
\* The steps of a call in flight.  EventService.publish logs and returns, and
\* the clock of the store moves on between two inserts.
ValidateStep(p) ==
    \/ VGetUser(p)
    \/ VGetActor(p)
    \/ VCountAdmins(p)
    \/ VError(p)

ChangeStep(p) ==
    \/ CGetUser(p)
    \/ CGetActor(p)
    \/ CCommit(p, {1}, {TRUE})
    \/ CError(p)

Step(p) == ValidateStep(p) \/ ChangeStep(p)

\* Calls of the service and requests to the handler, one at a time: the
\* next call starts when the one before has returned
Next ==
    \/ StartRoute(1, Reasons)
    \/ StartValidate(1)
    \/ StartChange(1, Reasons)
    \/ Step(1)

Spec == Init /\ [][Next]_vars

\* Some user is an administrator
InitAdmin == Init /\ AdminCount(users) >= 1

\* Requests to the handler only, one processed after another
NextRouteSeq ==
    \/ StartRoute(1, Reasons)
    \/ Step(1)

SpecRouteSeq == InitAdmin /\ [][NextRouteSeq]_vars

\* Requests to the handler only, interleaved at their awaits
NextRoute ==
    \E p \in Procs :
        \/ StartRoute(p, {None})
        \/ Step(p)

SpecRoute == InitAdmin /\ [][NextRoute]_vars

\* Calls of change_user_role only, interleaved at their awaits
NextChange ==
    \E p \in Procs :
        \/ StartChange(p, {None})
        \/ ChangeStep(p)

SpecChange == Init /\ [][NextChange]_vars

\* change_user_role with an event sink that may raise (a sink other than
\* the logging one), calls one at a time
NextPublish ==
    \/ StartChange(1, {None})
    \/ CGetUser(1)
    \/ CGetActor(1)
    \/ CCommit(1, {1}, BOOLEAN)
    \/ CError(1)

SpecPublish == Init /\ [][NextPublish]_vars

\* An administrator and users who are not
InitAudit ==
    /\ Init
    /\ \A u \in Users : users[u] = IF u = UserId(1) THEN ADMIN ELSE "AUTHENTICATED"

HistoryStep(p) ==
    \/ HPage(p)
    \/ HCount(p)
    \/ HError(p)

\* Every operation of the service, one call at a time; two inserts may fall
\* on the same reading of the store's clock
NextAudit ==
    \/ StartChange(1, {None})
    \/ StartValidate(1)
    \/ StartHistory(1)
    \/ ListRoles(1)
    \/ ValidateStep(1)
    \/ CGetUser(1)
    \/ CGetActor(1)
    \/ CCommit(1, {0, 1}, {TRUE})
    \/ CError(1)
    \/ HistoryStep(1)

SpecAudit == InitAudit /\ [][NextAudit]_vars

\* change_user_role called on its own, one call at a time, with ids that
\* name users and ids that do not, and roles that parse and roles that do not
NextStandalone ==
    \/ StartChangeOf(1, AnyIds, ChangeValues \cup {OtherValue("int", "3")}, {None})
    \/ ChangeStep(1)

SpecStandalone == Init /\ [][NextStandalone]_vars

\* Reads of the history by two processes while one of them changes roles
\* between its reads: the queries of a read are two statements, and a
\* commit may fall between them; two inserts may fall on the same reading
\* of the store's clock.
NextReads ==
    \/ StartChangeOf(1, Users, {EnumValue("MANAGER")}, {None})
    \/ CGetUser(1)
    \/ CGetActor(1)
    \/ CCommit(1, {0, 1}, {TRUE})
    \/ CError(1)
    \/ \E p \in Procs :
          \/ StartHistoryIn(p, {None, UserId(2)}, 0..(MaxWindow - 1), 1..MaxWindow)
          \/ HPage(p)
          \/ HCount(p)

SpecReads == InitAudit /\ [][NextReads]_vars

\* Requests with every kind of reason, one at a time
NextRequest ==
    \/ Request(1)
    \/ Step(1)

SpecRequest == InitAudit /\ [][NextRequest]_vars

\* _parse_role on every kind of value, on its own and inside
\* validate_role_change
NextParse ==
    \/ ParseRole(1)
    \/ StartValidateOf(1, ParseValues)
    \/ ValidateStep(1)

SpecParse == Init /\ [][NextParse]_vars

\* --------------------------------------------------------------- claims
Admins == {u \in Users : users[u] = ADMIN}
Forbidden == <<"Only administrators can change user roles">>
LastAdministrator == <<"Cannot change the role of the last administrator">>

\* Positions of the records of user u, in the order they were inserted
RecordsOf(u) == {i \in 1..Len(history) : history[i].user_id = u}
Latest(S) == CHOOSE i \in S : \A j \in S : j <= i

\* change_user_role of process p has returned its success result
Succeeded(p) ==
    /\ pc[p] = "done"
    /\ op[p] \in {"change", "route"}
    /\ cres[p] # NoResult
    /\ cres[p] # NoneResult
    /\ "error" \notin DOMAIN cres[p]

\* validate_role_change, called on its own by process p, has returned
\* without a store call raising
Validated(p) == pc[p] = "done" /\ op[p] = "validate" /\ ~raised[p]

\* C1: with requests to the change-role handler processed one after another
\* from a state with an administrator, some user always holds ADMIN.
C1_LastAdminSequential == Cardinality(Admins) >= 1

\* An administrator was demoted while another remained, and the demotion of
\* the remaining one was then refused.
C1_Witness ==
    /\ \E i \in 1..Len(history) : history[i].previous_role = ADMIN /\ history[i].new_role # ADMIN
    /\ pc[1] = "done"
    /\ vres[1] = [ok |-> FALSE, msg |-> LastAdministrator]

\* C2: with requests to the change-role handler interleaved, the store never
\* holds zero administrators.
C2_LastAdminUnderRaces == \E u \in Users : users[u] = ADMIN

\* C3: when change_user_role has returned success, one record was added; it
\* names the subject, the role stored before the call, the requested role and
\* the actor, and the subject's stored role is the requested role.
C3_AtomicOnSuccess ==
    \A p \in Procs : Succeeded(p) =>
        LET a == args[p]
            requested == _parse_role(a.new_role)
        IN /\ Len(history) = before[p].records + 1
           /\ Cardinality(RecordsOf(a.user_id)) =
                 Cardinality({i \in RecordsOf(a.user_id) : i <= before[p].records}) + 1
           /\ history[Len(history)].user_id = a.user_id
           /\ history[Len(history)].changed_by_id = a.changed_by_id
           /\ history[Len(history)].previous_role = before[p].users[a.user_id]
           /\ history[Len(history)].new_role = requested
           /\ users[a.user_id] = requested

\* change_user_role, called on its own, has changed a role and returned
\* success.
C3_Witness ==
    /\ Succeeded(1)
    /\ op[1] = "change"
    /\ Len(history) = 1
    /\ history[1].previous_role # history[1].new_role

\* C4: when change_user_role has returned None the store is as it was before
\* the call; and in every state each user's stored role is the new role of
\* the user's latest record, or the initial role when the user has none.
C4_AtomicOnFailure ==
    /\ \A p \in Procs :
          (pc[p] = "done" /\ cres[p] = NoneResult) =>
              (users = before[p].users /\ Len(history) = before[p].records)
    /\ \A u \in Users :
          users[u] = IF RecordsOf(u) = {} THEN users0[u]
                     ELSE history[Latest(RecordsOf(u))].new_role

\* A call failed after an earlier call had changed a role.
C4_Witness ==
    /\ pc[1] = "done"
    /\ op[1] = "change"
    /\ cres[1] = NoneResult
    /\ args[1].user_id \in Users
    /\ args[1].changed_by_id \in Users
    /\ _parse_role(args[1].new_role) # None
    /\ Len(history) = 1

\* C5: of two records of one subject, the later committed names as previous
\* role the role the earlier committed one wrote.
C5_NoLostUpdate ==
    \A i, j \in 1..Len(history) :
        (/\ i < j
         /\ history[i].user_id = history[j].user_id
         /\ \A k \in (i + 1)..(j - 1) : history[k].user_id # history[i].user_id)
        => history[j].previous_role = history[i].new_role

\* C6: change_user_role with a subject or actor id that matches no user
\* leaves the store as it was and, unless a store call raised, returns the
\* not_found result naming the missing id.
C6_NotFoundResult ==
    \A p \in Procs :
        (/\ pc[p] = "done"
         /\ op[p] = "change"
         /\ (args[p].user_id \notin Users \/ args[p].changed_by_id \notin Users))
        => /\ users = before[p].users
           /\ Len(history) = before[p].records
           /\ ~raised[p] =>
                 /\ cres[p] # NoneResult
                 /\ cres[p] = [error |-> <<"User with ID ",
                                           IF args[p].user_id \notin Users
                                           THEN args[p].user_id ELSE args[p].changed_by_id,
                                           " not found">>,
                               status |-> "not_found"]

\* The subject exists and the actor does not.
C6_Witness ==
    /\ pc[1] = "done"
    /\ op[1] = "change"
    /\ args[1].user_id \in Users
    /\ args[1].changed_by_id \notin Users
    /\ cres[1].status = "not_found"

\* C7 as stated: an actor who is not ADMIN gets Forbidden for every existing
\* subject and every requested role.
C7_ForbiddenForEveryRole ==
    \A p \in Procs :
        (/\ Validated(p)
         /\ args[p].user_id \in Users
         /\ args[p].changed_by_id \in Users
         /\ users[args[p].changed_by_id] # ADMIN)
        => vres[p] = [ok |-> FALSE, msg |-> Forbidden]

\* C7: an actor who is not ADMIN gets Forbidden for every existing subject
\* and every valid requested role other than the subject's current role.
C7_ForbiddenForEveryChange ==
    \A p \in Procs :
        (/\ Validated(p)
         /\ args[p].user_id \in Users
         /\ args[p].changed_by_id \in Users
         /\ users[args[p].changed_by_id] # ADMIN
         /\ _parse_role(args[p].new_role) # None
         /\ _parse_role(args[p].new_role) # users[args[p].user_id])
        => vres[p] = [ok |-> FALSE, msg |-> Forbidden]

\* A MANAGER asks to promote another user.
C7_Witness ==
    /\ Validated(1)
    /\ args[1].user_id \in Users
    /\ args[1].changed_by_id \in Users \ {args[1].user_id}
    /\ users[args[1].changed_by_id] = "MANAGER"
    /\ users[args[1].user_id] = "AUTHENTICATED"
    /\ args[1].new_role = StrValue("MANAGER")
    /\ vres[1].msg = Forbidden

\* C8: asking for the role the subject holds is refused with "already has the
\* role", whatever the actor's role and whichever user the actor is.
C8_SameRoleRefused ==
    \A p \in Procs :
        (/\ Validated(p)
         /\ args[p].user_id \in Users
         /\ args[p].changed_by_id \in Users
         /\ _parse_role(args[p].new_role) = users[args[p].user_id])
        => /\ vres[p].ok = FALSE
           /\ vres[p].msg = <<"User already has the role ", args[p].new_role.value>>

\* The actor is another user and is not ADMIN.
C8_Witness ==
    /\ Validated(1)
    /\ args[1].user_id \in Users
    /\ args[1].changed_by_id \in Users \ {args[1].user_id}
    /\ users[args[1].changed_by_id] # ADMIN
    /\ _parse_role(args[1].new_role) = users[args[1].user_id]
    /\ vres[1].ok = FALSE

\* C9: for an ADMIN subject, a requested role other than ADMIN and an ADMIN
\* actor, the answer is "last administrator" exactly when at most one user
\* holds ADMIN, and ok when two or more do.
C9_LastAdminExactly ==
    \A p \in Procs :
        (/\ Validated(p)
         /\ args[p].user_id \in Users
         /\ args[p].changed_by_id \in Users
         /\ users[args[p].user_id] = ADMIN
         /\ users[args[p].changed_by_id] = ADMIN
         /\ _parse_role(args[p].new_role) \in RoleNames \ {ADMIN})
        => /\ Cardinality(Admins) <= 1 => vres[p] = [ok |-> FALSE, msg |-> LastAdministrator]
           /\ Cardinality(Admins) >= 2 => vres[p].ok
           /\ vres[p].msg = LastAdministrator => Cardinality(Admins) <= 1

\* The only administrator asks for their own demotion and is refused.
C9_Witness ==
    /\ Validated(1)
    /\ args[1].user_id \in Users
    /\ args[1].changed_by_id = args[1].user_id
    /\ users[args[1].user_id] = ADMIN
    /\ Cardinality(Admins) = 1
    /\ args[1].new_role = StrValue("MANAGER")
    /\ vres[1].msg = LastAdministrator

\* C10: an ADMIN actor, an existing subject, a valid role other than the
\* subject's, and not the demotion of the only ADMIN: the answer is
\* (true, "Role change is valid").
C10_ValidChange ==
    \A p \in Procs :
        (/\ Validated(p)
         /\ args[p].user_id \in Users
         /\ args[p].changed_by_id \in Users
         /\ _parse_role(args[p].new_role) # None
         /\ users[args[p].changed_by_id] = ADMIN
         /\ users[args[p].user_id] # _parse_role(args[p].new_role)
         /\ ~(/\ users[args[p].user_id] = ADMIN
              /\ _parse_role(args[p].new_role) # ADMIN
              /\ Cardinality(Admins) <= 1))
        => vres[p] = [ok |-> TRUE, msg |-> <<"Role change is valid">>]

\* One of two administrators is demoted by the other.
C10_Witness ==
    /\ Validated(1)
    /\ args[1].user_id \in Users
    /\ args[1].changed_by_id \in Users \ {args[1].user_id}
    /\ users[args[1].user_id] = ADMIN
    /\ users[args[1].changed_by_id] = ADMIN
    /\ args[1].new_role = StrValue("MANAGER")
    /\ vres[1].ok

\* C11: when the call of publish raises after the commit,
\* change_user_role still returns its success result, the subject's stored
\* role is the requested role and the record of the call is in the log.
C11_PublishFailureHarmless ==
    \A p \in Procs :
        LET a == args[p]
        IN (/\ pc[p] = "done"
            /\ op[p] = "change"
            /\ ~raised[p]
            /\ a.user_id \in Users
            /\ a.changed_by_id \in Users
            /\ _parse_role(a.new_role) # None
            /\ \E e \in 1..Len(events) :
                  events[e].data.changed_at = now /\ ~events[e].returned)
           => /\ Succeeded(p)
              /\ cres[p].user_id = a.user_id
              /\ cres[p].new_role = _parse_role(a.new_role)
              /\ users[a.user_id] = _parse_role(a.new_role)
              /\ Len(history) = before[p].records + 1
              /\ history[Len(history)].user_id = a.user_id
              /\ history[Len(history)].new_role = _parse_role(a.new_role)
              /\ history[Len(history)].changed_at = now

\* A call committed a change of role and the sink raised.
C11_Witness ==
    /\ pc[1] = "done"
    /\ op[1] = "change"
    /\ ~raised[1]
    /\ Len(history) = 1
    /\ Len(events) = 1
    /\ ~events[1].returned
    /\ history[1].previous_role # history[1].new_role
    /\ users[history[1].user_id] = history[1].new_role
    /\ cres[1] # NoneResult

\* C12: the log only grows by appending: no step of any operation
\* (change_user_role, validate_role_change, get_role_change_history,
\* get_available_roles) removes a record or changes a field of one, and the
\* number of records of a subject never decreases.
C12_AppendOnly ==
    [][/\ Len(history') >= Len(history)
       /\ \A i \in 1..Len(history) : history'[i] = history[i]
       /\ \A u \in UserIds :
             Cardinality({i \in 1..Len(history') : history'[i].user_id = u})
                >= Cardinality({i \in 1..Len(history) : history[i].user_id = u})]_vars

\* A subject's role was changed twice and the log was read afterwards.
C12_Witness ==
    /\ Len(history) = 2
    /\ history[1].user_id = history[2].user_id
    /\ pc[1] = "done"
    /\ op[1] = "history"

\* get_role_change_history of process p has returned and no query raised
Read(p) == pc[p] = "done" /\ op[p] = "history" /\ ~raised[p]

\* Positions of the records a read for user_id is about: those of the
\* subject, or all of them when no subject is given
Matching(user_id) == IF user_id = None THEN 1..Len(history) ELSE RecordsOf(user_id)

\* The k-th most recently inserted position of S
KthLatest(S, k) == CHOOSE i \in S : Cardinality({j \in S : j > i}) = k - 1

\* How many records the window (skip, limit) holds of n
WindowSize(n, skip, limit) ==
    IF n - skip <= 0 THEN 0 ELSE IF n - skip < limit THEN n - skip ELSE limit

\* C13: when the records a read is about were made at increasing
\* timestamps, the read returns them newest first, in strictly descending
\* order of timestamp, and the window (skip, limit) holds exactly the
\* elements skip+1 .. skip+limit of that order, as far as they exist.
C13_OrderedPage ==
    \A p \in Procs : Read(p) =>
        LET a == args[p]
            S == Matching(a.user_id)
            page == qres[p].records
        IN (\A i, j \in S : i < j => history[i].changed_at < history[j].changed_at)
           => /\ Len(page) = WindowSize(Cardinality(S), a.skip, a.limit)
              /\ \A k \in 1..Len(page) : page[k] = history[KthLatest(S, a.skip + k)]
              /\ \A k \in 1..(Len(page) - 1) : page[k].changed_at > page[k + 1].changed_at

\* Two changes of a subject at different times, and a read of the whole of
\* the subject's history, which has the later change first.
C13_Witness ==
    /\ Read(1)
    /\ Len(history) = 2
    /\ history[1].user_id = history[2].user_id
    /\ history[1].changed_at < history[2].changed_at
    /\ args[1].user_id = history[1].user_id
    /\ args[1].skip = 0
    /\ args[1].limit = 2
    /\ qres[1].records = <<history[2], history[1]>>

\* C14: the total a read reports is the number of all the records the read
\* is about (the subject's, or all without a subject), whatever skip and
\* limit are, also when the window holds fewer records or none; skip and
\* limit come back as given.
C14_TotalOfFilteredSet ==
    \A p \in Procs : Read(p) =>
        /\ qres[p].total = Cardinality(Matching(args[p].user_id))
        /\ qres[p].skip = args[p].skip
        /\ qres[p].limit = args[p].limit

\* A read for a subject with one record, next to a record of another
\* subject, with a window past the end: no record returned, total 1.
C14_Witness ==
    /\ Read(1)
    /\ Len(history) = 2
    /\ history[1].user_id # history[2].user_id
    /\ args[1].user_id = history[1].user_id
    /\ args[1].skip = 1
    /\ args[1].limit = 1
    /\ qres[1].records = <<>>
    /\ qres[1].total = 1

\* C15: a read for a subject returns only records of that subject, and a
\* window that starts at 0 and is as long as the total holds every record
\* of the subject; a read without a subject ranges over the records of all
\* subjects in the same way.
C15_SubjectFilter ==
    \A p \in Procs : Read(p) =>
        LET a == args[p]
            page == qres[p].records
            returned == {page[k] : k \in 1..Len(page)}
            all == {history[i] : i \in Matching(a.user_id)}
        IN /\ returned \subseteq all
           /\ a.user_id # None => \A r \in returned : r.user_id = a.user_id
           /\ (a.skip = 0 /\ a.limit >= Cardinality(all)) => returned = all

\* Records of two subjects; a read for one of them returns its record alone.
C15_Witness ==
    /\ Read(1)
    /\ Len(history) = 2
    /\ history[1].user_id # history[2].user_id
    /\ args[1].user_id = history[2].user_id
    /\ args[1].skip = 0
    /\ args[1].limit = 2
    /\ qres[1].records = <<history[2]>>

\* Records of two subjects, and a read without a subject returns both.
C15_WitnessAll ==
    /\ Read(1)
    /\ Len(history) = 2
    /\ history[1].user_id # history[2].user_id
    /\ args[1].user_id = None
    /\ args[1].skip = 0
    /\ args[1].limit = 2
    /\ Len(qres[1].records) = 2
\* C16: no step of validate_role_change changes the store: users' roles,
\* the log, the clock and the published events are the same after each of
\* its steps, whether it accepts, rejects or fails internally.
C16_ValidateReadOnly ==
    [][(pc[1] \in {"v_get_user", "v_get_actor", "v_count"})
          => /\ users' = users
             /\ history' = history
             /\ events' = events
             /\ now' = now]_vars

\* validate_role_change accepted the demotion of an administrator after
\* counting the administrators, and the store is as it was before the call.
C16_Witness ==
    /\ Validated(1)
    /\ vres[1].ok
    /\ args[1].user_id \in Users
    /\ before[1].users[args[1].user_id] = ADMIN
    /\ users = before[1].users
    /\ Len(history) = before[1].records
\* C17: publish is called for the committed changes, once each and in the
\* order of the commits: the i-th call hands over a user_role_changed event
\* carrying the subject, previous role, requested role and timestamp
\* of the i-th record, the actor's identity and the reason; a call that has
\* returned made one call of publish if it succeeded and none if it returned a
\* not-found or invalid-role result or None.
C17_EventPerCommit ==
    /\ Len(events) = Len(history)
    /\ \A i \in 1..Len(events) :
          /\ i <= Len(history)
          /\ events[i].type = "user_role_changed"
          /\ events[i].data.user_id = history[i].user_id
          /\ events[i].data.previous_role = history[i].previous_role
          /\ events[i].data.new_role = history[i].new_role
          /\ events[i].data.changed_at = history[i].changed_at
          /\ events[i].data.changed_by = Email(history[i].changed_by_id)
          /\ events[i].data.reason = history[i].reason
    /\ \A p \in Procs :
          (pc[p] = "done" /\ op[p] \in {"change", "route"}) =>
              Len(events) = before[p].records + (IF Succeeded(p) THEN 1 ELSE 0)

\* A change with a reason succeeded after a call that had failed, and
\* publish was called once.
C17_Witness ==
    /\ Succeeded(1)
    /\ ops = 2
    /\ Len(history) = 1
    /\ Len(events) = 1
    /\ events[1].data.reason = "promo"
    /\ events[1].data.previous_role # events[1].data.new_role
\* C18: the success result of change_user_role reports the subject's id,
\* the role stored before the call, the requested role, the actor's email
\* and the reason as the caller gave it, and agrees field by field with the
\* record the call added to the log.
C18_ResultAgreesWithRecord ==
    \A p \in Procs : Succeeded(p) =>
        LET a == args[p]
            res == cres[p]
            rec == history[Len(history)]
        IN /\ res.user_id = a.user_id
           /\ res.previous_role = before[p].users[a.user_id]
           /\ res.new_role = _parse_role(a.new_role)
           /\ res.changed_by = Email(a.changed_by_id)
           /\ res.reason = a.reason
           /\ res.user_id = rec.user_id
           /\ res.previous_role = rec.previous_role
           /\ res.new_role = rec.new_role
           /\ res.changed_by = Email(rec.changed_by_id)
           /\ res.reason = rec.reason
           /\ res.changed_at = rec.changed_at

\* A user's role was changed by another user, with a reason.
C18_Witness ==
    /\ Succeeded(1)
    /\ Len(history) = 1
    /\ args[1].reason = "promo"
    /\ args[1].user_id # args[1].changed_by_id
    /\ cres[1].previous_role # cres[1].new_role
    /\ cres[1].changed_by = Email(args[1].changed_by_id)
\* C19: when the page query or the count query of get_role_change_history
\* raises, the read returns no records and total 0, with skip and limit as
\* given, and raises nothing.
C19_FailSafeEmpty ==
    \A p \in Procs :
        (pc[p] = "done" /\ op[p] = "history" /\ raised[p]) =>
            qres[p] = [records |-> <<>>, total |-> 0,
                       limit |-> args[p].limit, skip |-> args[p].skip]

\* A query raised in a read whose window holds records of the log.
C19_Witness ==
    /\ pc[1] = "done"
    /\ op[1] = "history"
    /\ raised[1]
    /\ Len(history) = 2
    /\ args[1].user_id = None
    /\ args[1].skip = 1
    /\ args[1].limit = 2
    /\ qres[1].records = <<>>
    /\ qres[1].total = 0

\* C20: get_available_roles returns ANONYMOUS, AUTHENTICATED, MANAGER, ADMIN,
\* in this order, in every state it is called in, and changes nothing in
\* the store.
C20_ListRoles ==
    [][(pc'[1] = "done" /\ op'[1] = "list")
          => /\ qres'[1].roles = <<"ANONYMOUS", "AUTHENTICATED", "MANAGER", "ADMIN">>
             /\ users' = users
             /\ history' = history
             /\ events' = events
             /\ now' = now]_vars

\* The roles were listed after a change of role.
C20_Witness ==
    /\ pc[1] = "done"
    /\ op[1] = "list"
    /\ Len(history) = 1
    /\ Len(qres[1].roles) = 4
    /\ qres[1].roles[1] = "ANONYMOUS"
    /\ qres[1].roles[4] = ADMIN
\* The role a value stands for: a canonical name, compared as it is
\* written, or a member; nothing else
Canonical(v) ==
    IF v.type = "str" /\ v.value \in {"ANONYMOUS", "AUTHENTICATED", "MANAGER", "ADMIN"}
    THEN v.value
    ELSE IF v.type = "UserRole" THEN v.value
    ELSE None

\* C21: _parse_role returns the role of a string that is exactly a canonical
\* name, returns a member as it is, and None for every other string and
\* every value of another type; validate_role_change with a value that
\* parses to None, on an existing subject and actor, answers
\* (False, "Invalid role: <value>").
C21_ParseRole ==
    \A p \in Procs :
        /\ (pc[p] = "done" /\ op[p] = "parse") => qres[p].role = Canonical(args[p].new_role)
        /\ (/\ Validated(p)
            /\ args[p].user_id \in Users
            /\ args[p].changed_by_id \in Users
            /\ Canonical(args[p].new_role) = None)
           => vres[p] = [ok |-> FALSE, msg |-> <<"Invalid role: ", args[p].new_role.value>>]

\* A name in lower case was parsed to None.
C21_Witness ==
    /\ pc[1] = "done"
    /\ op[1] = "parse"
    /\ args[1].new_role = StrValue("admin")
    /\ qres[1].role = None

\* validate_role_change was given an integer as the role of existing users.
C21_WitnessValidate ==
    /\ Validated(1)
    /\ args[1].user_id \in Users
    /\ args[1].changed_by_id \in Users
    /\ args[1].new_role.type = "int"
    /\ vres[1].msg = <<"Invalid role: ", "3">>
\* C22: a request is let through to the handler if its reason is absent, or
\* has at least 5 and at most 255 characters and contains none of
\* "profanity", "offensive", "inappropriate" in whatever case; every other
\* request is answered 422 without validate_role_change or change_user_role
\* having run, and the store is as it was.
C22_ReasonAtTheBoundary ==
    \A p \in Procs : op[p] = "route" =>
        LET v == args[p].reason
            fine == \/ v = Absent
                    \/ /\ Length(v) >= 5
                       /\ Length(v) <= 255
                       /\ LET lowered == lower(v.text)
                          IN \A pattern \in inappropriate_patterns : ~Contains(pattern, lowered)
        IN /\ http[p] = 422 <=> ~fine
           /\ ~fine => /\ pc[p] = "done"
                       /\ vres[p] = NoValidation
                       /\ cres[p] = NoResult
                       /\ users = before[p].users
                       /\ Len(history) = before[p].records

\* A request whose reason has a denylisted word in capitals was refused
\* after another request had changed a role.
C22_Witness ==
    /\ op[1] = "route"
    /\ http[1] = 422
    /\ Len(history) = 1
    /\ args[1].reason # Absent
    /\ Length(args[1].reason) = 9
    /\ args[1].reason.text[1] = "P"

\* A request with a reason of 255 characters changed a role.
C22_WitnessLongest ==
    /\ Succeeded(1)
    /\ args[1].reason # Absent
    /\ Length(args[1].reason) = 255
    /\ history[Len(history)].reason = args[1].reason
\* C23: validate_role_change answers with the first rule that fails, in the
\* order: subject exists, actor exists, role valid, role differs from the
\* subject's, actor is ADMIN, subject is not the last ADMIN; when several
\* fail the message is that of the earliest, and when none fails the
\* answer is (True, "Role change is valid").
C23_FirstFailingRule ==
    \A p \in Procs : Validated(p) =>
        LET a == args[p]
            role == Canonical(a.new_role)
        IN vres[p] =
             IF a.user_id \notin Users
             THEN [ok |-> FALSE, msg |-> <<"User with ID ", a.user_id, " not found">>]
             ELSE IF a.changed_by_id \notin Users
             THEN [ok |-> FALSE, msg |-> <<"User with ID ", a.changed_by_id, " not found">>]
             ELSE IF role = None
             THEN [ok |-> FALSE, msg |-> <<"Invalid role: ", Format(a.new_role)>>]
             ELSE IF users[a.user_id] = role
             THEN [ok |-> FALSE, msg |-> <<"User already has the role ", Format(a.new_role)>>]
             ELSE IF users[a.changed_by_id] # ADMIN
             THEN [ok |-> FALSE, msg |-> Forbidden]
             ELSE IF users[a.user_id] = ADMIN /\ Cardinality(Admins) <= 1
             THEN [ok |-> FALSE, msg |-> LastAdministrator]
             ELSE [ok |-> TRUE, msg |-> <<"Role change is valid">>]

\* Subject and actor are both missing, under different ids, and the role
\* is invalid too: the answer names the subject.
C23_Witness ==
    /\ Validated(1)
    /\ args[1].user_id = MissingId
    /\ args[1].changed_by_id = OtherMissingId
    /\ args[1].new_role = StrValue("SUPER_USER")
    /\ vres[1].msg = <<"User with ID ", MissingId, " not found">>

\* An invalid role asked for by an actor who is no administrator.
C23_WitnessInvalidRole ==
    /\ Validated(1)
    /\ args[1].user_id \in Users
    /\ args[1].changed_by_id \in Users
    /\ users[args[1].changed_by_id] # ADMIN
    /\ args[1].new_role = StrValue("SUPER_USER")
    /\ vres[1].msg = <<"Invalid role: ", "SUPER_USER">>
\* change_user_role of process p, called on its own, has returned and no
\* store call raised
Changed(p) == pc[p] = "done" /\ op[p] = "change" /\ ~raised[p]

\* C24: change_user_role looks for the subject, then for the actor, then
\* parses the role, and stops at the first that fails: a missing subject is
\* reported not_found whatever the actor and the role are, a missing actor
\* is reported not_found whatever the role is, a role that does not parse
\* is reported invalid_role when both users exist; in each case the store
\* is as it was.
C24_ChangeOrder ==
    \A p \in Procs : Changed(p) =>
        LET a == args[p]
            untouched == users = before[p].users /\ Len(history) = before[p].records
        IN IF a.user_id \notin Users
           THEN /\ cres[p] = [error |-> <<"User with ID ", a.user_id, " not found">>, status |-> "not_found"]
                /\ untouched
           ELSE IF a.changed_by_id \notin Users
           THEN /\ cres[p] = [error |-> <<"User with ID ", a.changed_by_id, " not found">>, status |-> "not_found"]
                /\ untouched
           ELSE IF Canonical(a.new_role) = None
           THEN /\ cres[p] = [error |-> <<"Invalid role: ", Format(a.new_role)>>, status |-> "invalid_role"]
                /\ untouched
           ELSE TRUE

\* The actor is missing and the role does not parse, after an earlier call
\* changed a role: the actor is reported.
C24_Witness ==
    /\ Changed(1)
    /\ Len(history) = 1
    /\ args[1].user_id \in Users
    /\ args[1].changed_by_id = OtherMissingId
    /\ args[1].new_role = StrValue("SUPER_USER")
    /\ cres[1].status = "not_found"
    /\ cres[1].error = <<"User with ID ", OtherMissingId, " not found">>

\* Subject and actor are missing under different ids.
C24_WitnessSubject ==
    /\ Changed(1)
    /\ args[1].user_id = MissingId
    /\ args[1].changed_by_id = OtherMissingId
    /\ args[1].new_role.type = "int"
    /\ cres[1].error = <<"User with ID ", MissingId, " not found">>
\* C29: change_user_role called on its own succeeds for every existing
\* subject, existing actor and valid role when no store call raises: the
\* requested role is stored and a record is added, also when the actor is
\* no ADMIN, when the subject already holds the role (the record's previous
\* role is then its new role) and when the subject is the only ADMIN (no
\* ADMIN is then left).
C29_StandaloneChange ==
    \A p \in Procs :
        (/\ Changed(p)
         /\ args[p].user_id \in Users
         /\ args[p].changed_by_id \in Users
         /\ Canonical(args[p].new_role) # None)
        => /\ Succeeded(p)
           /\ users[args[p].user_id] = Canonical(args[p].new_role)
           /\ Len(history) = before[p].records + 1
           /\ history[Len(history)].user_id = args[p].user_id
           /\ history[Len(history)].previous_role = before[p].users[args[p].user_id]
           /\ history[Len(history)].new_role = Canonical(args[p].new_role)

\* The only ADMIN was demoted by a user who is no ADMIN: none is left.
C29_Witness ==
    /\ Changed(1)
    /\ Succeeded(1)
    /\ args[1].user_id # args[1].changed_by_id
    /\ before[1].users[args[1].user_id] = ADMIN
    /\ before[1].users[args[1].changed_by_id] # ADMIN
    /\ Admins = {}

\* A user was given the role the user already held, and a record says so.
C29_WitnessSameRole ==
    /\ Changed(1)
    /\ Succeeded(1)
    /\ Len(history) = 1
    /\ history[1].previous_role = history[1].new_role
\* C25: in the request handler change_user_role runs only after
\* validate_role_change has answered ok for the request's subject, role and
\* actor; a request whose validation fails is answered 400 with the
\* validation's message, change_user_role is not called, and the users'
\* roles and the log are as they were.
C25_ChangeOnlyAfterValidation ==
    \A p \in Procs : op[p] = "route" =>
        /\ (pc[p] \in {"c_get_user", "c_get_actor", "c_commit"} \/ cres[p] # NoResult)
               => vres[p] = [ok |-> TRUE, msg |-> <<"Role change is valid">>]
        /\ (pc[p] = "done" /\ vres[p] # NoValidation /\ ~vres[p].ok)
               => /\ http[p] = 400
                  /\ cres[p] = NoResult
                  /\ users = before[p].users
                  /\ Len(history) = before[p].records

\* A request to demote the last administrator was refused with 400.
C25_Witness ==
    /\ op[1] = "route"
    /\ pc[1] = "done"
    /\ http[1] = 400
    /\ vres[1].msg = LastAdministrator
    /\ cres[1] = NoResult

\* A request passed its validation and changed a role.
C25_WitnessChanged ==
    /\ op[1] = "route"
    /\ Succeeded(1)
    /\ http[1] = 200
    /\ vres[1].ok
\* The read of process p began and ended with the log as it is now
ReadNow(p) == Read(p) /\ before[p].records = Len(history)

\* C26: records of equal timestamp come in a fixed order: two reads of the
\* same log with the same arguments return the same sequence, and the
\* pages (0, m) and (m, m) of the same log have no record in common.
C26_TiesDeterministic ==
    \A p, q \in Procs :
        (ReadNow(p) /\ ReadNow(q) /\ args[p].user_id = args[q].user_id) =>
            /\ (args[p].skip = args[q].skip /\ args[p].limit = args[q].limit)
                   => qres[p].records = qres[q].records
            /\ (args[p].skip = 0 /\ args[q].skip = args[p].limit /\ args[q].limit = args[p].limit)
                   => \A i \in 1..Len(qres[p].records), j \in 1..Len(qres[q].records) :
                          qres[p].records[i] # qres[q].records[j]

\* C27: the records and the total of one read are those of one state of
\* the store, also when a change commits between the page query and the
\* count query: the page holds as many records as the window has of the
\* total, and for skip 0 never more than the total.
C27_SnapshotOfOneState ==
    \A p \in Procs : Read(p) =>
        /\ Len(qres[p].records) = WindowSize(qres[p].total, args[p].skip, args[p].limit)
        /\ args[p].skip = 0 => Len(qres[p].records) <= qres[p].total
\* C28: with roles changed by change_user_role alone, one call at a time,
\* the records of a user form a chain: the user's stored role is the new
\* role of the user's latest record, the first record's previous role is
\* the role the user started with, and every later record's previous role
\* is the new role of the user's record before it.
C28_AuditChain ==
    \A u \in Users : RecordsOf(u) # {} =>
        /\ users[u] = history[Latest(RecordsOf(u))].new_role
        /\ \A j \in RecordsOf(u) :
              LET earlier == {i \in RecordsOf(u) : i < j}
              IN history[j].previous_role =
                    IF earlier = {} THEN users0[u] ELSE history[Latest(earlier)].new_role

\* A user's role was changed twice, to different roles.
C28_Witness ==
    /\ Len(history) = 2
    /\ history[1].user_id = history[2].user_id
    /\ history[1].previous_role # history[1].new_role
    /\ history[2].previous_role = history[1].new_role
    /\ history[2].new_role # history[2].previous_role
    /\ users[history[2].user_id] = history[2].new_role

\* C30: a change committed through the request handler is committed while
\* its actor holds ADMIN in the store, also when requests interleave: an
\* actor demoted by another request after the validation of the actor's
\* own request does not commit a change.
C30_ActorAdminAtCommit ==
    [][\A p \in Procs :
          (op[p] = "route" /\ pc[p] = "c_commit" /\ Len(history') = Len(history) + 1
              /\ pc'[p] = "done")
          => users[args[p].changed_by_id] = ADMIN]_vars

\* C31: a call of change_user_role that succeeds, made on its own or by the
\* request handler, changes the subject's role and nothing else in the
\* store, also when calls interleave: the step
\* that commits leaves the role of every other user as it is in the store
\* (the actor's too, when the actor is not the subject), leaves every record
\* of the log as it is and in its place, and adds one record, which is the
\* subject's; the steps of the call before its commit write nothing.
C31_Frame ==
    [][\A p \in Procs :
          (op[p] \in {"change", "route"} /\ pc[p] \in {"c_get_user", "c_get_actor", "c_commit"}
              /\ pc'[p] # pc[p])
          => IF pc'[p] = "done" /\ cres'[p] # NoneResult /\ "error" \notin DOMAIN cres'[p]
             THEN /\ \A u \in Users \ {args[p].user_id} : users'[u] = users[u]
                  /\ users'[args[p].user_id] = Canonical(args[p].new_role)
                  /\ Len(history') = Len(history) + 1
                  /\ \A i \in 1..Len(history) : history'[i] = history[i]
                  /\ history'[Len(history')].user_id = args[p].user_id
             ELSE /\ users' = users
                  /\ history' = history]_vars

\* A call changed its subject's role after the other process's call had
\* changed the role of its actor: the actor holds the role the other call
\* gave, and the other call's record stands first in the log.
C31_Witness ==
    /\ op[1] = "change"
    /\ Succeeded(1)
    /\ Succeeded(2)
    /\ args[1].user_id # args[1].changed_by_id
    /\ args[2].user_id = args[1].changed_by_id
    /\ Len(history) = 2
    /\ history[1].user_id = args[2].user_id
    /\ history[2].user_id = args[1].user_id
    /\ history[1].new_role # history[1].previous_role
    /\ users[args[1].changed_by_id] = history[1].new_role
    /\ users[args[1].user_id] = history[2].new_role

====
